---- MODULE Spec2Model ----
(***************************************************************************)
(* Rate limiting, webhook verification and API-key authentication of the   *)
(* Notion-Slack agent, as state machines translated from                    *)
(* src/services/rate_limiter.py, src/services/auth_service.py,              *)
(* src/integrations/webhook_handlers.py and src/api/routes.py.              *)
(***************************************************************************)
EXTENDS Integers, FiniteSets, Sequences, TLC

(***************************************************************************)
(* Bounds of the rate-limiter model.                                        *)
(***************************************************************************)
NReq == 3          \* concurrent check_rate_limit calls
MaxClock == 3      \* values time.time() takes: 0..MaxClock
MaxQuota == 2      \* RateLimit.requests ranges over 1..MaxQuota
MaxWindow == 2     \* RateLimit.window_seconds ranges over 1..MaxWindow
NFew == 2          \* check_rate_limit calls of the smaller specifications

\* seconds the key outlives its window (pipe.expire(key, window + 60))
ExpireSlack == 60

(***************************************************************************)
(* Bounds and constants of the webhook model.                               *)
(***************************************************************************)
MaxResets == 1     \* reset_rate_limit calls
MaxWhTicks == 1    \* steps the webhook clock takes
MaxWhRequests == 2 \* webhook requests answered

\* abs(current_timestamp - request_timestamp) > 300
ReplayWindow == 300

(***************************************************************************)
(* Bounds of the API-key model.                                             *)
(***************************************************************************)
MaxKeys == 2       \* create_api_key calls
MaxAuthClock == 2  \* days datetime.utcnow() advances: 0..MaxAuthClock
NVal == 1          \* concurrent validate_api_key calls
KeyQuota == 2      \* rate_limit given to create_api_key
MaxApiCalls == 3   \* handler runs of the API routes for one bearer value
NUse == 2          \* concurrent APIKeyRepository.update_usage calls

\* timedelta(hours=1) against the days the clock counts
HoursPerDay == 24

\* AdaptiveRateLimiter
MaxSamples == 2    \* update_system_load calls
MaxAdTicks == 1    \* steps the clock of the adaptive limiter takes
MaxBase == 3       \* base_limit.requests ranges over 1..MaxBase

\* helpers.rate_limit
NThreads == 2       \* threads that call a decorated function
MaxCpm == 2         \* calls_per_minute ranges over 0..MaxCpm
MaxLimCalls == 3    \* calls of one decorated function
MaxMinutes == 1     \* the clock of the wrappers runs to MaxMinutes * Minute

\* retry_with_backoff
MaxRetries == 2    \* max_retries ranges over 0..MaxRetries
MaxDelay == 3      \* base_delay and max_delay range over 1..MaxDelay

\* the window of helpers.rate_limit, in seconds
Minute == 60

\* the ten minutes of get_adaptive_limit and the size load_history is cut to
TenMinutes == 600
max_history_size == 100

VARIABLES
    clock,           \* time.time()
    default_limits,  \* RateLimiter.default_limits: limit type -> RateLimit
    store,           \* Redis sorted sets: redis key -> set of members str(now), score = now
    expireAt,        \* Redis TTL of each key as an absolute time (None: no TTL)
    req,             \* check_rate_limit calls: their locals and position
    stat,            \* the get_rate_limit_status call: its locals and position
    resets           \* reset_rate_limit calls made and what the last one returned

rlVars == <<clock, default_limits, store, expireAt, req, stat, resets>>

VARIABLES
    wnow,            \* the wall clock of the webhook endpoints, in seconds
    settings,        \* get_settings(): the secrets the verifiers use
    whLast,          \* the last webhook request (or verifier call) and its answer
    tasks            \* background_tasks: the handlers scheduled so far

whVars == <<wnow, settings, whLast, tasks>>

VARIABLES
    anow,            \* datetime.utcnow(), in days
    api_keys,        \* the api_keys table: the rows of APIKeyModel by id
    tokens,          \* pairs of tokens generate_api_key has drawn
    val,             \* validate_api_key calls: their locals and position
    authLast,        \* the last AuthService call that returned, and its result
    revoked,         \* key ids for which revoke_api_key returned True
    apiLast,         \* the last call of an API route and its answer
    apiRuns          \* handler runs of the API routes by bearer value

apiVars == <<apiLast, apiRuns>>

VARIABLES
    use              \* APIKeyRepository.update_usage calls: locals and position

repoVars == <<use>>

authVars == <<anow, api_keys, tokens, val, authLast, revoked, apiVars, repoVars>>

VARIABLES
    adnow,           \* time.time() as AdaptiveRateLimiter reads it, in seconds
    load_history,    \* AdaptiveRateLimiter.load_history
    adLast           \* the last get_adaptive_limit call and what it returned

adVars == <<adnow, load_history, adLast>>

VARIABLES
    retry            \* one call of a function wrapped by retry_with_backoff

retryVars == <<retry>>

VARIABLES
    lnow,              \* time.time() as the wrappers of helpers.rate_limit read it
    calls_per_minute,  \* the argument of the decorator
    wrapper,           \* "async" or "sync": the wrapper the decorator returned
    calls,             \* the list `calls` of the decorated function
    lim,               \* per thread: where its call of the wrapper stands
    finished           \* the calls of the wrapper that ended, in order

limVars == <<lnow, calls_per_minute, wrapper, calls, lim, finished>>

VARIABLES
    mw               \* per request: where RateLimitMiddleware.__call__ stands

mwVars == <<mw>>

auxVars == <<adVars, retryVars, limVars, mwVars>>

vars == <<rlVars, whVars, authVars, auxVars>>

None == <<>>
Some(x) == <<x>>

Procs == 1..NReq

\* the limit types of default_limits the model keeps (two of the seven)
LimitTypes == {"api", "user"}
\* identifiers callers pass as `key`
Idents == {"a"}

RateLimits == [requests : 1..MaxQuota, window_seconds : 1..MaxWindow]

\* the custom_limit arguments callers pass (None: no custom limit)
CustomLimits == {None, Some([requests |-> 1, window_seconds |-> MaxWindow])}

\* the tables default_limits is drawn from: every limit for "api", and a
\* "user" limit that differs from it in quota and window
OtherLimit(l) ==
    [requests |-> (l.requests % MaxQuota) + 1,
     window_seconds |-> (l.window_seconds % MaxWindow) + 1]

DefaultTables ==
    {[t \in LimitTypes |-> IF t = "api" THEN l ELSE OtherLimit(l)] : l \in RateLimits}

\* f"rate_limit:{limit_type}:{key}"
RedisKey(limit_type, key) == "rate_limit:" \o limit_type \o ":" \o key

\* a (limit type, identifier) pair as a caller passes it
Pair(limit_type, key) == [limit_type |-> limit_type, key |-> key]

\* pairs whose identifiers hold the separator, as the middleware's
\* "user:<id>" and "ip:<address>" do, beside a limit type default_limits
\* does not name
Pairs ==
    {Pair("api", "a"), Pair("user", "a"), Pair("api", "a:a"), Pair("api:a", "a")}

\* what the middleware finds on a request: request.state.api_key_id,
\* request.state.user_id (None: not set) and request.client.host
Requests == [api_key : {None, Some("k")}, user_id : {None, Some("u")}, client_ip : {"h"}]

\* lines 307-315: the key and the type the middleware checks a request with
LimitPair(request) ==
    IF request.api_key # None THEN Pair("api", "api_key:" \o request.api_key[1])
    ELSE IF request.user_id # None THEN Pair("user", "user:" \o request.user_id[1])
    ELSE Pair("ip", "ip:" \o request.client_ip)

RedisKeys ==
    {RedisKey(t, k) : t \in LimitTypes, k \in Idents}
        \cup {RedisKey(q.limit_type, q.key) : q \in Pairs}
        \cup {RedisKey(LimitPair(q).limit_type, LimitPair(q).key) : q \in Requests}

\* a selection that looks at the limit type alone
SelectDefault(custom_limit, limit_type) ==
    IF limit_type \in DOMAIN default_limits THEN default_limits[limit_type]
    ELSE default_limits["api"]

\* custom_limit or self.default_limits.get(limit_type, self.default_limits["api"])
SelectLimit(custom_limit, limit_type) ==
    IF custom_limit # None THEN custom_limit[1]
    ELSE IF limit_type \in DOMAIN default_limits THEN default_limits[limit_type]
    ELSE default_limits["api"]

\* a key whose TTL has run out is gone: every command sees an empty set
Live(k) == IF expireAt[k] # None /\ clock >= expireAt[k][1] THEN {} ELSE store[k]

\* TTL of a key after a command left it holding `members`: an empty sorted
\* set is deleted together with its TTL
TtlAfter(k, members) ==
    IF members = {} THEN None
    ELSE IF expireAt[k] # None /\ clock >= expireAt[k][1] THEN None
    ELSE expireAt[k]

\* ZREMRANGEBYSCORE key -inf window_start
Zremrangebyscore(members, window_start) == {t \in members : t > window_start}

Min(S) == CHOOSE x \in S : \A y \in S : x <= y

\* zrange(key, 0, 0, withscores=True) and the reset time computed from it
ResetTime(members, window_seconds) ==
    IF members = {} THEN None ELSE Some(Min(members) + window_seconds)

Max0(x) == IF x > 0 THEN x ELSE 0

\* the metadata dictionary of a completed check or status query
Metadata(rate_limit, current_count, members) ==
    [limit |-> rate_limit.requests,
     remaining |-> Max0(rate_limit.requests - current_count),
     reset_time |-> ResetTime(members, rate_limit.window_seconds),
     window_seconds |-> rate_limit.window_seconds,
     current_count |-> current_count]

Unavailable == [error |-> "rate_limiter_unavailable"]
Pending == [pending |-> TRUE]

NoLimit == [requests |-> 1, window_seconds |-> 1]

IdleReq ==
    [pc |-> "idle", limit_type |-> "api", key |-> "a", rate_limit |-> NoLimit,
     now |-> 0, current_count |-> 0, allowed |-> FALSE, outcome |-> "none",
     metadata |-> Pending, failed |-> "none", alone |-> TRUE, peers |-> 0,
     before |-> {}, custom_limit |-> None]

IdleStat ==
    [pc |-> "idle", limit_type |-> "api", key |-> "a", now |-> 0,
     current_count |-> 0, result |-> Pending]

NoReset == [n |-> 0, result |-> None, pair |-> [limit_type |-> "api", key |-> "a"]]

InFlight(r) == req[r].pc \notin {"idle", "done"}

RlInit ==
    /\ clock = 0
    /\ default_limits \in DefaultTables
    /\ store = [k \in RedisKeys |-> {}]
    /\ expireAt = [k \in RedisKeys |-> None]
    /\ req = [r \in Procs |-> IdleReq]
    /\ stat = IdleStat
    /\ resets = NoReset

\* time passes
Tick ==
    /\ clock < MaxClock
    /\ clock' = clock + 1
    /\ UNCHANGED <<default_limits, store, expireAt, req, stat, resets, whVars, authVars, auxVars>>

(***************************************************************************)
(* RateLimiter.check_rate_limit, one action per store round trip.           *)
(***************************************************************************)

\* lines 58-62: pick the limit, build the key, read the clock.  The calls
\* are interchangeable, so call r + 1 begins only after call r has begun.
CheckBeginAt(r, pairs, custom_limits) ==
    /\ req[r].pc = "idle"
    /\ IF r = 1 THEN TRUE ELSE req[r - 1].pc # "idle"
    /\ \E pair \in pairs, custom_limit \in custom_limits :
         req' = [q \in Procs |->
                   IF q = r
                   THEN [IdleReq EXCEPT
                           !.pc = "exec",
                           !.limit_type = pair.limit_type,
                           !.key = pair.key,
                           !.custom_limit = custom_limit,
                           !.rate_limit = SelectLimit(custom_limit, pair.limit_type),
                           !.now = clock,
                           !.alone = \A o \in Procs \ {r} : ~InFlight(o),
                           !.peers = Cardinality({o \in Procs \ {r} : InFlight(o)})]
                   ELSE IF InFlight(q) THEN [req[q] EXCEPT !.alone = FALSE]
                   ELSE req[q]]
    /\ UNCHANGED <<clock, default_limits, store, expireAt, stat, resets, whVars, authVars, auxVars>>

CheckBeginWith(r, limit_types, custom_limits) ==
    CheckBeginAt(r, {Pair(t, k) : t \in limit_types, k \in Idents}, custom_limits)

\* a call of check_rate_limit(key, "api") without a custom limit
CheckBegin(r) == CheckBeginWith(r, {"api"}, {None})

\* the MULTI/EXEC pipeline of lines 64-79: zremrangebyscore, zcard, zadd;
\* the member added is str(now), so a member equal to now is not added twice
Pipeline(members, now, window_start) ==
    LET kept == Zremrangebyscore(members, window_start)
    IN  [zcard |-> Cardinality(kept), members |-> kept \cup {now}]

\* the state of the key after the pipeline ran, expire included
PipelineEffect(r) ==
    LET k == RedisKey(req[r].limit_type, req[r].key)
        rl == req[r].rate_limit
        res == Pipeline(Live(k), req[r].now, req[r].now - rl.window_seconds)
    IN  /\ store' = [store EXCEPT ![k] = res.members]
        /\ expireAt' = [expireAt EXCEPT
                          ![k] = Some(clock + rl.window_seconds + ExpireSlack)]

\* a handler that covers the pipeline only: an error of zrem or zrange
\* leaves the call through an exception
OnRedisErrorEscapes(r, at) ==
    [req[r] EXCEPT !.pc = "done",
                   !.allowed = (at = "pipeline"),
                   !.outcome = IF at = "pipeline" THEN "return" ELSE "raise",
                   !.metadata = IF at = "pipeline" THEN Unavailable ELSE Pending,
                   !.failed = at, !.current_count = 0, !.before = {}]

\* lines 104-107: except redis.RedisError -> return True, {"error": ...}
OnRedisError(r, at) ==
    [req[r] EXCEPT !.pc = "done", !.allowed = TRUE, !.outcome = "return",
                   !.metadata = Unavailable, !.failed = at,
                   !.current_count = 0, !.before = {}]

\* lines 79-82: pipe.execute() succeeds
PipeExecute(r) ==
    /\ req[r].pc = "exec"
    /\ LET k == RedisKey(req[r].limit_type, req[r].key)
           rl == req[r].rate_limit
           res == Pipeline(Live(k), req[r].now, req[r].now - rl.window_seconds)
           current_count == res.zcard + 1
           allowed == current_count <= rl.requests
       IN  req' = [req EXCEPT ![r].pc = IF allowed THEN "zrange" ELSE "zrem",
                              ![r].current_count = current_count,
                              ![r].allowed = allowed,
                              ![r].before = Live(k)]
    /\ PipelineEffect(r)
    /\ UNCHANGED <<clock, default_limits, stat, resets, whVars, authVars, auxVars>>

\* pipe.execute() raises: the transaction ran (reply lost) or did not run
PipeFail(r) ==
    /\ req[r].pc = "exec"
    /\ \/ PipelineEffect(r)
       \/ UNCHANGED <<store, expireAt>>
    /\ req' = [req EXCEPT ![r] = OnRedisError(r, "pipeline")]
    /\ UNCHANGED <<clock, default_limits, stat, resets, whVars, authVars, auxVars>>

\* the state of the key after zrem(redis_key, str(now))
ZremEffect(r) ==
    LET k == RedisKey(req[r].limit_type, req[r].key)
        members == Live(k) \ {req[r].now}
    IN  /\ store' = [store EXCEPT ![k] = members]
        /\ expireAt' = [expireAt EXCEPT ![k] = TtlAfter(k, members)]

\* lines 84-86: the denied request removes the member it added
Zrem(r) ==
    /\ req[r].pc = "zrem"
    /\ ZremEffect(r)
    /\ req' = [req EXCEPT ![r].pc = "zrange"]
    /\ UNCHANGED <<clock, default_limits, stat, resets, whVars, authVars, auxVars>>

ZremFail(r) ==
    /\ req[r].pc = "zrem"
    /\ \/ ZremEffect(r)
       \/ UNCHANGED <<store, expireAt>>
    /\ req' = [req EXCEPT ![r] = OnRedisError(r, "zrem")]
    /\ UNCHANGED <<clock, default_limits, stat, resets, whVars, authVars, auxVars>>

\* lines 88-102: read the oldest member, build the metadata, return
Zrange(r) ==
    /\ req[r].pc = "zrange"
    /\ LET k == RedisKey(req[r].limit_type, req[r].key)
       IN  req' = [req EXCEPT
                     ![r].pc = "done",
                     ![r].outcome = "return",
                     ![r].metadata = Metadata(req[r].rate_limit,
                                              req[r].current_count, Live(k)),
                     ![r].current_count = 0,
                     ![r].before = {}]
    /\ UNCHANGED <<clock, default_limits, store, expireAt, stat, resets, whVars, authVars, auxVars>>

ZrangeFail(r) ==
    /\ req[r].pc = "zrange"
    /\ req' = [req EXCEPT ![r] = OnRedisError(r, "zrange")]
    /\ UNCHANGED <<clock, default_limits, store, expireAt, stat, resets, whVars, authVars, auxVars>>

(***************************************************************************)
(* RateLimiter.get_rate_limit_status: three separate commands.              *)
(***************************************************************************)

StatusLimit == SelectLimit(None, stat.limit_type)

\* lines 120-123
StatusBeginAt(pairs) ==
    /\ stat.pc = "idle"
    /\ \E pair \in pairs :
         stat' = [IdleStat EXCEPT !.pc = "evict", !.limit_type = pair.limit_type,
                                  !.key = pair.key, !.now = clock]
    /\ UNCHANGED <<clock, default_limits, store, expireAt, req, resets, whVars, authVars, auxVars>>

StatusBegin == StatusBeginAt({Pair(t, k) : t \in LimitTypes, k \in Idents})

StatusEvictEffect ==
    LET k == RedisKey(stat.limit_type, stat.key)
        members == Zremrangebyscore(Live(k), stat.now - StatusLimit.window_seconds)
    IN  /\ store' = [store EXCEPT ![k] = members]
        /\ expireAt' = [expireAt EXCEPT ![k] = TtlAfter(k, members)]

\* line 127
StatusEvict ==
    /\ stat.pc = "evict"
    /\ StatusEvictEffect
    /\ stat' = [stat EXCEPT !.pc = "count"]
    /\ UNCHANGED <<clock, default_limits, req, resets, whVars, authVars, auxVars>>

\* line 130
StatusCount ==
    /\ stat.pc = "count"
    /\ stat' = [stat EXCEPT
                  !.pc = "oldest",
                  !.current_count =
                      Cardinality(Live(RedisKey(stat.limit_type, stat.key)))]
    /\ UNCHANGED <<clock, default_limits, store, expireAt, req, resets, whVars, authVars, auxVars>>

\* lines 133-144
StatusOldest ==
    /\ stat.pc = "oldest"
    /\ stat' = [stat EXCEPT
                  !.pc = "done",
                  !.result = Metadata(StatusLimit, stat.current_count,
                                      Live(RedisKey(stat.limit_type, stat.key)))]
    /\ UNCHANGED <<clock, default_limits, store, expireAt, req, resets, whVars, authVars, auxVars>>

\* lines 146-148: any of the three commands raises
StatusFail ==
    /\ stat.pc \in {"evict", "count", "oldest"}
    /\ \/ stat.pc = "evict" /\ StatusEvictEffect
       \/ UNCHANGED <<store, expireAt>>
    /\ stat' = [stat EXCEPT !.pc = "done", !.result = Unavailable]
    /\ UNCHANGED <<clock, default_limits, req, resets, whVars, authVars, auxVars>>

(***************************************************************************)
(* RateLimiter.reset_rate_limit: one DEL command.                           *)
(***************************************************************************)

\* line 165: delete(redis_key) removes the sorted set and its TTL
DeleteEffect(k) ==
    /\ store' = [store EXCEPT ![k] = {}]
    /\ expireAt' = [expireAt EXCEPT ![k] = None]

\* lines 162-168: True after the delete, False when the command raises (its
\* reply was lost, or it never ran)
reset_rate_limit_at(pairs) ==
    /\ resets.n < MaxResets
    /\ \E pair \in pairs :
         LET k == RedisKey(pair.limit_type, pair.key)
         IN  \/ /\ DeleteEffect(k)
                /\ resets' = [n |-> resets.n + 1, result |-> Some(TRUE),
                               pair |-> pair]
             \/ /\ \/ DeleteEffect(k)
                   \/ UNCHANGED <<store, expireAt>>
                /\ resets' = [n |-> resets.n + 1, result |-> Some(FALSE),
                               pair |-> pair]
    /\ UNCHANGED <<clock, default_limits, req, stat, whVars, authVars, auxVars>>

reset_rate_limit == reset_rate_limit_at({Pair("api", k) : k \in Idents})

(***************************************************************************)
(* AdaptiveRateLimiter: update_system_load and get_adaptive_limit.          *)
(***************************************************************************)

\* cpu_percent and memory_percent as the caller measures them
Percents == {20, 30, 80, 100}

\* the base limits get_adaptive_limit is given
BaseLimits == [requests : 1..MaxBase, window_seconds : {1}, burst_allowance : {0, 1}]

NoAdaptive ==
    [called |-> FALSE, base_limit |-> [requests |-> 1, window_seconds |-> 1, burst_allowance |-> 0],
     now |-> 0, history |-> <<>>,
     result |-> [requests |-> 1, window_seconds |-> 1, burst_allowance |-> 0]]

\* time passes: ten minutes, or a second less
AdTick ==
    /\ \E d \in {TenMinutes - 1, TenMinutes} :
         /\ adnow + d <= MaxAdTicks * TenMinutes
         /\ adnow' = adnow + d
    /\ UNCHANGED <<load_history, adLast, rlVars, whVars, authVars, retryVars, limVars, mwVars>>

\* lines 237-243: load_score = (cpu_percent + memory_percent) / 2; the sample
\* keeps twice the score, so that it stays a whole number
Sample(now, cpu_percent, memory_percent) ==
    [timestamp |-> now, load_score2 |-> cpu_percent + memory_percent]

\* lines 246-247: load_history[-max_history_size:]
Trim(history) ==
    IF Len(history) > max_history_size
    THEN SubSeq(history, Len(history) - max_history_size + 1, Len(history))
    ELSE history

update_system_load ==
    /\ Len(load_history) < MaxSamples
    /\ \E cpu_percent \in Percents, memory_percent \in Percents :
         load_history' =
             Trim(Append(load_history, Sample(adnow, cpu_percent, memory_percent)))
    /\ UNCHANGED <<adnow, adLast, rlVars, whVars, authVars, retryVars, limVars, mwVars>>

RECURSIVE Sum(_)
Sum(seq) == IF seq = <<>> THEN 0 ELSE Head(seq) + Sum(Tail(seq))

\* lines 255-259: the scores of the entries younger than ten minutes
RecentLoads(history, now) ==
    LET young == SelectSeq(history, LAMBDA entry : entry.timestamp > now - TenMinutes)
    IN  [i \in 1..Len(young) |-> young[i].load_score2]

\* lines 264-274: the multiplier in tenths; avg_load = sum / len is compared
\* through sum2 / 2 > 80 * len
Multiplier10(sum2, len) ==
    IF sum2 > 2 * 80 * len THEN 5
    ELSE IF sum2 > 2 * 60 * len THEN 7
    ELSE IF sum2 < 2 * 30 * len THEN 15
    ELSE 10

Max(a, b) == IF a > b THEN a ELSE b

\* a limit computed without the floor of one request
get_adaptive_limit_unfloored(history, now, base_limit) ==
    LET recent_loads == RecentLoads(history, now)
    IN  IF history = <<>> \/ recent_loads = <<>> THEN base_limit
        ELSE [requests |-> (base_limit.requests
                              * Multiplier10(Sum(recent_loads), Len(recent_loads))) \div 10,
              window_seconds |-> base_limit.window_seconds,
              burst_allowance |-> base_limit.burst_allowance]

\* get_adaptive_limit, lines 249-282: int(base_limit.requests * multiplier)
\* truncates, max(1, ...) keeps one request
get_adaptive_limit(history, now, base_limit) ==
    LET recent_loads == RecentLoads(history, now)
    IN  IF history = <<>> \/ recent_loads = <<>> THEN base_limit
        ELSE [requests |-> Max(1, (base_limit.requests
                              * Multiplier10(Sum(recent_loads), Len(recent_loads))) \div 10),
              window_seconds |-> base_limit.window_seconds,
              burst_allowance |-> base_limit.burst_allowance]

\* a caller of get_adaptive_limit
get_adaptive_limit_call ==
    /\ \E base_limit \in BaseLimits :
         adLast' = [called |-> TRUE, base_limit |-> base_limit, now |-> adnow,
                    history |-> load_history,
                    result |-> get_adaptive_limit(load_history, adnow, base_limit)]
    /\ UNCHANGED <<adnow, load_history, rlVars, whVars, authVars, retryVars, limVars, mwVars>>

(***************************************************************************)
(* RateLimitMiddleware.__call__ (services/rate_limiter.py).                 *)
(***************************************************************************)

NoAnswer ==
    [kind |-> "none", retry_after |-> None, at |-> 0, handled |-> 0,
     limit |-> None, remaining |-> None, reset |-> None]

IdleMw ==
    [pc |-> "idle", request |-> [api_key |-> None, user_id |-> None, client_ip |-> "h"],
     limit_key |-> "", limit_type |-> "", answer |-> NoAnswer]

\* str(n), the value of a response header
Str(n) == <<"str", n>>

\* metadata.get(name, 0) for the names "limit" and "remaining"
GetOr0(metadata, name) ==
    IF name \in DOMAIN metadata THEN metadata[name] ELSE 0

\* metadata.get("reset_time", 0): the value stored under the name, None
\* included, and 0 when the name is absent
GetResetTime(metadata) ==
    IF "reset_time" \in DOMAIN metadata THEN metadata.reset_time ELSE Some(0)

\* lines 302-315: the identifiers are read off the request and the key and
\* the type are chosen
MwReceive(r) ==
    /\ mw[r].pc = "idle"
    /\ req[r].pc = "idle"
    /\ IF r = 1 THEN TRUE ELSE mw[r - 1].pc # "idle"
    /\ \E request \in Requests :
         mw' = [mw EXCEPT ![r] = [IdleMw EXCEPT
                                    !.pc = "check",
                                    !.request = request,
                                    !.limit_key = LimitPair(request).key,
                                    !.limit_type = LimitPair(request).limit_type]]
    /\ UNCHANGED <<rlVars, whVars, authVars, adVars, retryVars, limVars>>

\* line 318: self.rate_limiter.check_rate_limit(limit_key, limit_type) begins
MwCheck(r) ==
    /\ mw[r].pc = "check"
    /\ CheckBeginAt(r, {Pair(mw[r].limit_type, mw[r].limit_key)}, {None})

\* lines 320-324: the limiter said no; the subtraction fails on a reset_time
\* of None
Deny(metadata, now) ==
    IF GetResetTime(metadata) = None
    THEN [NoAnswer EXCEPT !.kind = "TypeError", !.at = now]
    ELSE [NoAnswer EXCEPT !.kind = "RateLimitError", !.at = now,
                          !.retry_after = Some(GetResetTime(metadata)[1] - now)]

\* lines 327-333: the downstream handler runs and the headers are set
Forward(metadata, now) ==
    [NoAnswer EXCEPT
       !.kind = "response", !.at = now, !.handled = 1,
       !.limit = Some(Str(GetOr0(metadata, "limit"))),
       !.remaining = Some(Str(GetOr0(metadata, "remaining"))),
       !.reset = IF GetResetTime(metadata) \notin {None, Some(0)}
                 THEN Some(Str(GetResetTime(metadata)[1])) ELSE None]

\* lines 318-333, from the return of check_rate_limit on
MwRespond(r) ==
    /\ mw[r].pc = "check"
    /\ req[r].pc = "done"
    /\ req[r].outcome = "return"
    /\ mw' = [mw EXCEPT ![r].pc = "done",
                        ![r].answer = IF req[r].allowed
                                      THEN Forward(req[r].metadata, clock)
                                      ELSE Deny(req[r].metadata, clock)]
    /\ UNCHANGED <<rlVars, whVars, authVars, adVars, retryVars, limVars>>

(***************************************************************************)
(* utils/helpers.py: rate_limit.  The async wrapper has no await between    *)
(* reading the clock and appending, so on its event loop it is one step.    *)
(* The sync wrapper holds no lock: the threads that call it interleave      *)
(* between its statements.                                                  *)
(***************************************************************************)

Threads == 1..NThreads

IdleCall == [pc |-> "idle", now |-> 0]

\* line 190 / 211: [call_time for call_time in calls if now - call_time < 60]
Recent(list, now) == SelectSeq(list, LAMBDA call_time : now - call_time < Minute)

\* the end of a call: "invoked" (the wrapped function ran), or the exception
\* raised in its place
Ended(now, kind, over, retry_after, recorded) ==
    [now |-> now, kind |-> kind, over |-> over, retry_after |-> retry_after,
     recorded |-> recorded]

\* lines 193-199 / 214-220 on the list the call sees: the limit is reached
\* and RateLimitError is raised; calls[0] of an empty list is an IndexError
Refusal(list, now) ==
    IF list = <<>>
    THEN Ended(now, "IndexError", TRUE, None, FALSE)
    ELSE Ended(now, "RateLimitError", TRUE, Some(Minute - (now - list[1])), FALSE)

\* the clock readings the calls are made at: the whole minutes and the
\* second before each
Instants == {m * Minute - e : m \in 0..MaxMinutes, e \in {0, 1}} \cap Nat

\* time passes
LimTick ==
    /\ \E later \in Instants :
         /\ later > lnow
         /\ lnow' = later
    /\ UNCHANGED <<calls_per_minute, wrapper, calls, lim, finished,
                   rlVars, whVars, authVars, adVars, retryVars, mwVars>>

\* lines 172-184, 227-230: a function is decorated; it has a list of its
\* own, and the wrapper that fits it
decorator ==
    /\ \A t \in Threads : lim[t].pc = "idle"
    /\ \E cpm \in 0..MaxCpm, w \in {"async", "sync"} :
         /\ calls_per_minute' = cpm
         /\ wrapper' = w
    /\ calls' = <<>>
    /\ finished' = <<>>
    /\ UNCHANGED <<lnow, lim, rlVars, whVars, authVars, adVars, retryVars, mwVars>>

\* calls made of the decorated function, those in flight included
CallsMade == Len(finished) + Cardinality({t \in Threads : lim[t].pc # "idle"})

\* lines 186-204: one call of the async wrapper
async_wrapper(t) ==
    /\ wrapper = "async"
    /\ CallsMade < MaxLimCalls
    /\ LET now == lnow
           kept == Recent(calls, now)
       IN  IF Len(kept) >= calls_per_minute
           THEN /\ calls' = kept
                /\ finished' = Append(finished, Refusal(kept, now))
           ELSE /\ calls' = Append(kept, now)
                /\ finished' = Append(finished, Ended(now, "invoked", FALSE, None, TRUE))
    /\ UNCHANGED <<lnow, calls_per_minute, wrapper, lim,
                   rlVars, whVars, authVars, adVars, retryVars, mwVars>>

\* lines 208-211 of the sync wrapper: the clock is read and the old calls
\* are dropped
SyncFilter(t) ==
    /\ wrapper = "sync"
    /\ lim[t].pc = "idle"
    /\ CallsMade < MaxLimCalls
    /\ lim' = [lim EXCEPT ![t] = [pc |-> "check", now |-> lnow]]
    /\ calls' = Recent(calls, lnow)
    /\ UNCHANGED <<lnow, calls_per_minute, wrapper, finished,
                   rlVars, whVars, authVars, adVars, retryVars, mwVars>>

\* lines 214-220 of the sync wrapper
SyncCheck(t) ==
    /\ lim[t].pc = "check"
    /\ IF Len(calls) >= calls_per_minute
       THEN /\ finished' = Append(finished, Refusal(calls, lim[t].now))
            /\ lim' = [lim EXCEPT ![t] = IdleCall]
       ELSE /\ lim' = [lim EXCEPT ![t].pc = "record"]
            /\ UNCHANGED finished
    /\ UNCHANGED <<lnow, calls_per_minute, wrapper, calls,
                   rlVars, whVars, authVars, adVars, retryVars, mwVars>>

\* lines 223-225 of the sync wrapper
SyncRecord(t) ==
    /\ lim[t].pc = "record"
    /\ calls' = Append(calls, lim[t].now)
    /\ finished' = Append(finished, Ended(lim[t].now, "invoked", FALSE, None, TRUE))
    /\ lim' = [lim EXCEPT ![t] = IdleCall]
    /\ UNCHANGED <<lnow, calls_per_minute, wrapper,
                   rlVars, whVars, authVars, adVars, retryVars, mwVars>>

(***************************************************************************)
(* utils/helpers.py: retry_with_backoff (the sync and the async wrapper     *)
(* run the same steps).                                                     *)
(***************************************************************************)

\* the result of the n-th invocation of the wrapped function, and the
\* exception it raises
ResultOf(n) == <<"result", n>>
ExceptionOf(n) == <<"exception", n>>

NoRetry ==
    [pc |-> "idle", max_retries |-> 0, base_delay |-> 1, max_delay |-> 1,
     attempt |-> 0, invoked |-> <<>>, slept |-> <<>>, last_exception |-> None,
     outcome |-> None]

\* the wrapper is called: `for attempt in range(max_retries + 1)` begins
RetryCall ==
    /\ retry.pc \in {"idle", "done"}
    /\ \E max_retries \in 0..MaxRetries, base_delay \in 1..MaxDelay, max_delay \in 1..MaxDelay :
         retry' = [NoRetry EXCEPT !.pc = "try", !.max_retries = max_retries,
                                  !.base_delay = base_delay, !.max_delay = max_delay]
    /\ UNCHANGED <<rlVars, whVars, authVars, adVars, limVars, mwVars>>

\* line 273: the invocation returns and the wrapper returns its result
RetrySucceeds ==
    /\ retry.pc = "try"
    /\ LET n == Len(retry.invoked) + 1
       IN  retry' = [retry EXCEPT !.pc = "done",
                                  !.invoked = Append(@, "returned"),
                                  !.outcome = Some([kind |-> "return", value |-> ResultOf(n)])]
    /\ UNCHANGED <<rlVars, whVars, authVars, adVars, limVars, mwVars>>

\* a delay that is not capped
DelayUncapped(base_delay, max_delay, attempt) == base_delay * (2 ^ attempt)

\* line 282: min(base_delay * (2 ** attempt), max_delay)
Delay(base_delay, max_delay, attempt) ==
    IF base_delay * (2 ^ attempt) < max_delay
    THEN base_delay * (2 ^ attempt) ELSE max_delay

\* lines 274-283: the invocation raises; the last attempt re-raises, any
\* other one sleeps and goes round the loop
RetryFails ==
    /\ retry.pc = "try"
    /\ LET n == Len(retry.invoked) + 1
       IN  IF retry.attempt = retry.max_retries
           THEN retry' = [retry EXCEPT !.pc = "done",
                                       !.invoked = Append(@, "raised"),
                                       !.last_exception = Some(ExceptionOf(n)),
                                       !.outcome = Some([kind |-> "raise",
                                                         value |-> ExceptionOf(n)])]
           ELSE retry' = [retry EXCEPT !.invoked = Append(@, "raised"),
                                       !.last_exception = Some(ExceptionOf(n)),
                                       !.slept = Append(@, Delay(retry.base_delay,
                                                                 retry.max_delay,
                                                                 retry.attempt)),
                                       !.attempt = @ + 1]
    /\ UNCHANGED <<rlVars, whVars, authVars, adVars, limVars, mwVars>>

\* the caller takes the outcome; the wrapper is at rest again
RetryReturn ==
    /\ retry.pc = "done"
    /\ retry' = NoRetry
    /\ UNCHANGED <<rlVars, whVars, authVars, adVars, limVars, mwVars>>

(***************************************************************************)
(* Webhook verification and dispatch (integrations/webhook_handlers.py)     *)
(* and SlackAuthService.verify_slack_request (services/auth_service.py).    *)
(***************************************************************************)

\* request bodies: whether the bytes decode as UTF-8, whether the text is
\* JSON, and the "type" of the JSON object
BodyEvent == [id |-> "event", utf8 |-> TRUE, json |-> TRUE, type |-> "event_callback"]
BodyChallenge == [id |-> "challenge", utf8 |-> TRUE, json |-> TRUE, type |-> "url_verification"]
BodyText == [id |-> "text", utf8 |-> TRUE, json |-> FALSE, type |-> ""]
BodyBinary == [id |-> "binary", utf8 |-> FALSE, json |-> FALSE, type |-> ""]
Bodies == {BodyEvent, BodyChallenge, BodyText, BodyBinary}

\* X-Slack-Request-Timestamp values: a decimal number, the same number
\* zero-padded, or text that is no number
Ts(n) == <<"dec", n>>
NoTs == <<"none", 0>>
TsHeaders == {Ts(0), Ts(ReplayWindow + 1), <<"pad", 0>>, <<"bad", 0>>}

\* int(timestamp): None stands for ValueError
ParseInt(timestamp) ==
    IF timestamp[1] \in {"dec", "pad"} THEN Some(timestamp[2]) ELSE None

SecretKeys == {"ns", "ss", "xx"}

\* hmac.new(key, msg, hashlib.sha256).hexdigest(): one digest per (key, msg)
Hmac(key, msg) == [key |-> key, msg |-> msg]

\* the message Notion signs: the raw body
NotionMsg(body) == [ts |-> NoTs, body |-> body.id]
\* f"v0:{timestamp}:{body.decode()}"
SlackMsg(timestamp, body) == [ts |-> timestamp, body |-> body.id]

NotionSig(body, key) == [prefix |-> "", mac |-> Hmac(key, NotionMsg(body))]
SlackSig(body, timestamp, key) ==
    [prefix |-> "v0=", mac |-> Hmac(key, SlackMsg(timestamp, body))]
InvalidSig == [prefix |-> "", mac |-> Hmac("xx", NotionMsg(BodyText))]

\* the signature headers a sender may attach to a request
\* the signature headers a sender may attach to a request: the signature of
\* the request, of another body, of another timestamp, one made with
\* another key, and text that is no signature
NotionSigs(body) ==
    {NotionSig(body, "ns"), NotionSig(BodyEvent, "ns"), NotionSig(body, "xx"),
     InvalidSig}
SlackSigs(body, timestamp) ==
    {SlackSig(body, timestamp, "ss"), SlackSig(BodyEvent, timestamp, "ss"),
     SlackSig(body, Ts(0), "ss"), SlackSig(body, timestamp, "xx"), InvalidSig}

Abs(x) == IF x < 0 THEN -x ELSE x

\* a verifier without the except clause: the AttributeError of None.encode()
\* leaves the function
verify_notion_webhook_unguarded(request_body, signature, webhook_secret) ==
    IF webhook_secret = None
    THEN [ok |-> FALSE, compared |-> FALSE, raised |-> TRUE]
    ELSE [ok |-> signature = NotionSig(request_body, webhook_secret[1]),
          compared |-> TRUE, raised |-> FALSE]

\* verify_notion_webhook: a missing secret raises in .encode() and the
\* except clause returns False
verify_notion_webhook(request_body, signature, webhook_secret) ==
    IF webhook_secret = None
    THEN [ok |-> FALSE, compared |-> FALSE, raised |-> FALSE]
    ELSE [ok |-> signature = NotionSig(request_body, webhook_secret[1]),
          compared |-> TRUE, raised |-> FALSE]

\* verify_slack_webhook: the base string is built from the header as sent
verify_slack_webhook(request_body, timestamp, signature, signing_secret) ==
    IF ~request_body.utf8
    THEN [ok |-> FALSE, compared |-> FALSE, raised |-> FALSE]
    ELSE [ok |-> signature = SlackSig(request_body, timestamp, signing_secret),
          compared |-> TRUE, raised |-> FALSE]

\* SlackAuthService.verify_slack_request
verify_slack_request(body, timestamp, signature, now, signing_secret) ==
    IF ParseInt(timestamp) = None
    THEN [ok |-> FALSE, compared |-> FALSE, raised |-> FALSE]
    ELSE IF Abs(now - ParseInt(timestamp)[1]) > ReplayWindow
    THEN [ok |-> FALSE, compared |-> FALSE, raised |-> FALSE]
    ELSE IF ~body.utf8
    THEN [ok |-> FALSE, compared |-> FALSE, raised |-> FALSE]
    ELSE [ok |-> signature = SlackSig(body, timestamp, signing_secret),
          compared |-> TRUE, raised |-> FALSE]

\* settings.slack_verification_token: Settings declares no such field, so
\* getattr(settings, "slack_verification_token", None) is None
slack_verification_token == None

\* the "token" form field of a slash command (None: no such field)
Tokens == {None, Some("tok")}

NoRequest ==
    [endpoint |-> "none", body |-> BodyText, timestamp |-> NoTs,
     signature |-> InvalidSig, token |-> None, now |-> 0, status |-> 0,
     verified |-> FALSE, compared |-> FALSE, raised |-> FALSE,
     scheduled |-> FALSE, n |-> 0]

WhInit ==
    /\ wnow = 0
    /\ settings \in [notion_webhook_secret : {None, Some("ns")},
                     slack_signing_secret : {"ss"}]
    /\ whLast = NoRequest
    /\ tasks = {}

\* time passes on the webhook clock: a replay window, or a second more
WhTick ==
    /\ \E d \in {ReplayWindow, ReplayWindow + 1} :
         /\ wnow + d <= MaxWhTicks * (ReplayWindow + 1)
         /\ wnow' = wnow + d
    /\ UNCHANGED <<settings, whLast, tasks, rlVars, authVars, auxVars>>

\* the answer of an endpoint: the status, and the task it scheduled if any
Answer(endpoint, body, timestamp, signature, token, v, status, task) ==
    /\ whLast.n < MaxWhRequests
    /\ whLast' = [endpoint |-> endpoint, body |-> body, timestamp |-> timestamp,
                  signature |-> signature, token |-> token, now |-> wnow,
                  status |-> status, verified |-> v.ok, compared |-> v.compared,
                  raised |-> v.raised,
                  scheduled |-> task # None, n |-> whLast.n + 1]
    /\ tasks' = IF task = None THEN tasks
                ELSE tasks \cup {[task |-> task[1], verified |-> v.ok]}

\* POST /webhook/notion
handle_notion_webhook ==
    /\ \E body \in Bodies :
       \E signature \in NotionSigs(body) :
         LET v == verify_notion_webhook(body, signature,
                                        settings.notion_webhook_secret)
         IN  IF v.raised
             THEN Answer("notion", body, NoTs, signature, None, v, 500, None)
             ELSE IF ~v.ok
             THEN Answer("notion", body, NoTs, signature, None, v, 401, None)
             ELSE IF ~body.utf8
             THEN Answer("notion", body, NoTs, signature, None, v, 500, None)
             ELSE IF ~body.json
             THEN Answer("notion", body, NoTs, signature, None, v, 400, None)
             ELSE Answer("notion", body, NoTs, signature, None, v, 200,
                         Some("process_notion_webhook"))
    /\ UNCHANGED <<wnow, settings, rlVars, authVars, auxVars>>

\* POST /webhook/slack/events
handle_slack_events ==
    /\ \E body \in Bodies, timestamp \in TsHeaders :
       \E signature \in SlackSigs(body, timestamp) :
         LET v == verify_slack_webhook(body, timestamp, signature,
                                       settings.slack_signing_secret)
         IN  IF v.raised
             THEN Answer("slack_events", body, timestamp, signature, None, v, 500, None)
             ELSE IF ~v.ok
             THEN Answer("slack_events", body, timestamp, signature, None, v, 401, None)
             ELSE IF ~body.json
             THEN Answer("slack_events", body, timestamp, signature, None, v, 400, None)
             ELSE IF body.type = "url_verification"
             THEN Answer("slack_events", body, timestamp, signature, None, v, 200, None)
             ELSE Answer("slack_events", body, timestamp, signature, None, v, 200,
                         Some("process_slack_event"))
    /\ UNCHANGED <<wnow, settings, rlVars, authVars, auxVars>>

\* POST /webhook/slack/commands: a token that does not match is logged and
\* the command is processed all the same; a form that cannot be read ends
\* in the generic handler (500)
handle_slack_commands ==
    /\ \E token \in Tokens, readable \in BOOLEAN :
         LET v == [ok |-> token = slack_verification_token, compared |-> TRUE, raised |-> FALSE]
         IN  IF ~readable
             THEN Answer("slack_commands", BodyText, NoTs, InvalidSig, token,
                         [ok |-> FALSE, compared |-> FALSE, raised |-> FALSE], 500, None)
             ELSE Answer("slack_commands", BodyText, NoTs, InvalidSig, token, v,
                         200, Some("process_slack_command"))
    /\ UNCHANGED <<wnow, settings, rlVars, authVars, auxVars>>

\* a caller of slack_auth_service.verify_slack_request
verify_slack_request_call ==
    /\ \E body \in Bodies, timestamp \in TsHeaders :
       \E signature \in SlackSigs(body, timestamp) :
         LET v == verify_slack_request(body, timestamp, signature, wnow,
                                       settings.slack_signing_secret)
         IN  Answer("verify_slack_request", body, timestamp, signature, None, v,
                    IF v.raised THEN 500 ELSE IF v.ok THEN 200 ELSE 401, None)
    /\ UNCHANGED <<wnow, settings, rlVars, authVars, auxVars>>

(***************************************************************************)
(* API keys: src/services/auth_service.py (AuthService) over the api_keys  *)
(* table, and the authentication dependency of src/api/routes.py.          *)
(***************************************************************************)

Sessions == 1..NVal

\* secrets.token_urlsafe: the n-th pair of tokens generate_api_key draws
generate_api_key(n) == [key_id |-> <<"ak_", n>>, api_key |-> <<"sk_", n>>]

\* a digest of the random part alone, blind to the "ak_" or "sk_" before it
hash_token_only(api_key) == <<"sha256", <<"", api_key[2]>>>>

\* hashlib.sha256(api_key.encode()).hexdigest(): one digest for each input
hash_api_key(api_key) == <<"sha256", api_key>>

\* settings.api_secret_key, the one secret of the routes
api_secret_key == <<"api_secret_key", 0>>

\* bearer values a caller presents: secrets, key ids, the routes' secret, garbage
Credentials ==
    {generate_api_key(n).api_key : n \in 1..MaxKeys}
        \cup {generate_api_key(n).key_id : n \in 1..MaxKeys}
        \cup {api_secret_key, <<"zz", 0>>}

KeyIds == {generate_api_key(n).key_id : n \in 1..MaxKeys} \cup {<<"zz", 0>>}

\* permissions lists given to create_api_key (None and [] are both stored as [])
PermissionSets == {{}, {"notion:read"}, {"*"}}

\* expires_in_days given to create_api_key
ExpiresIn == {None, Some(0), Some(1)}

\* a row of the api_keys table: the columns of APIKeyModel, and the usage
\* columns that APIKey of schemas.py maps on the same table, with their defaults
Row(pair, permissions, rate_limit, expires_at, now) ==
    [key_id |-> pair.key_id, key_hash |-> hash_api_key(pair.api_key),
     permissions |-> permissions, rate_limit |-> rate_limit,
     is_active |-> TRUE, expires_at |-> expires_at, last_used |-> None,
     last_used_at |-> None, total_requests |-> 0, current_hour_requests |-> 0,
     last_hour_reset |-> now]

NoModel == Row(generate_api_key(0), {}, 0, None, 0)

IdleVal == [pc |-> "idle", api_key |-> <<"zz", 0>>, id |-> 0, model |-> NoModel,
            revoked_before |-> FALSE, usable_before |-> FALSE,
            after_create |-> None, at |-> 0]

NoCall == [op |-> "none", arg |-> <<"zz", 0>>, result |-> None, failed |-> "none",
           revoked_before |-> FALSE, usable_before |-> FALSE, after_create |-> None]

\* a call that returns: what it was given and what it gave back
Returned(op, arg, result, failed) ==
    [op |-> op, arg |-> arg, result |-> result, failed |-> failed,
     revoked_before |-> FALSE, usable_before |-> FALSE, after_create |-> None]

NoApiCall == [endpoint |-> "none", credentials |-> <<"zz", 0>>, status |-> 0,
              ran |-> FALSE, before |-> 0, table |-> <<>>, authorization |-> None]

Uses == 1..NUse

IdleUse == [pc |-> "idle", key_id |-> <<"zz", 0>>, id |-> 0, api_key |-> NoModel,
            outcome |-> "none"]

AuthRest ==
    /\ anow = 0
    /\ api_keys = <<>>
    /\ tokens = 0
    /\ val = [s \in Sessions |-> IdleVal]
    /\ authLast = NoCall
    /\ revoked = {}
    /\ apiLast = NoApiCall
    /\ apiRuns = [c \in Credentials |-> 0]
    /\ use = [u \in Uses |-> IdleUse]

\* a day passes on datetime.utcnow()
AuthTick ==
    /\ anow < MaxAuthClock
    /\ anow' = anow + 1
    /\ UNCHANGED <<api_keys, tokens, val, authLast, revoked, apiVars, repoVars, rlVars, whVars, auxVars>>

\* lines 83-85: `if expires_in_days:` (0 days is no expiry)
ExpiresAt(expires_in_days, now) ==
    IF expires_in_days = None \/ expires_in_days = Some(0) THEN None
    ELSE Some(now + expires_in_days[1])

\* create_api_key: generate, hash, insert, commit; any exception is raised
\* again as AuthenticationError
create_api_key_with(permission_sets, expires_in) ==
    /\ tokens < MaxKeys
    /\ tokens' = tokens + 1
    /\ \E permissions \in permission_sets, expires_in_days \in expires_in :
         LET pair == generate_api_key(tokens + 1)
             expires_at == ExpiresAt(expires_in_days, anow)
             row == Row(pair, permissions, KeyQuota, expires_at, anow)
         IN  \/ /\ api_keys' = Append(api_keys, row)
                /\ authLast' = Returned("create_api_key", pair.key_id,
                                        Some([key_id |-> pair.key_id,
                                              api_key |-> pair.api_key,
                                              permissions |-> permissions,
                                              rate_limit |-> KeyQuota,
                                              expires_at |-> expires_at,
                                              created_at |-> anow]),
                                        "none")
             \/ /\ api_keys' = api_keys
                /\ authLast' = Returned("create_api_key", pair.key_id, None, "commit")
    /\ UNCHANGED <<anow, val, revoked, apiVars, repoVars, rlVars, whVars, auxVars>>

create_api_key == create_api_key_with({{}}, ExpiresIn)

\* the rows the query of validate_api_key matches (lines 136-139)
Matching(api_key) ==
    {i \in DOMAIN api_keys : /\ api_keys[i].key_hash = hash_api_key(api_key)
                             /\ api_keys[i].is_active}

\* an expiry test that never fires
ExpiredNever(model, now) == FALSE

\* line 145: api_key_model.expires_at and api_key_model.expires_at < utcnow()
Expired(model, now) == model.expires_at # None /\ model.expires_at[1] < now

\* a row that is active and not expired
Usable(row, now) ==
    row.is_active /\ (IF row.expires_at = None THEN TRUE ELSE row.expires_at[1] >= now)

\* the rows a bearer value is the secret of
RowsOf(api_key) ==
    {i \in DOMAIN api_keys : api_keys[i].key_hash = hash_api_key(api_key)}

\* revoke_api_key has returned True for the key this is the secret of
WasRevoked(api_key) == \E i \in RowsOf(api_key) : api_keys[i].key_id \in revoked

\* a row with the digest of this secret is active and not expired
IsUsable(api_key) == \E i \in RowsOf(api_key) : Usable(api_keys[i], anow)

\* the key id create_api_key has just returned with this secret, if the call
\* before this one was that create_api_key and no time has passed since
AfterCreate(api_key) ==
    IF authLast.op = "create_api_key" /\ authLast.result # None
    THEN IF authLast.result[1].api_key = api_key /\ authLast.result[1].created_at = anow
         THEN Some(authLast.result[1].key_id)
         ELSE None
    ELSE None

\* what a validate_api_key call returns, with the state it was called in
ValidateReturns(s, api_key, result, failed, revoked_before, usable_before, after_create) ==
    /\ authLast' = [op |-> "validate_api_key", arg |-> api_key, result |-> result,
                    failed |-> failed, revoked_before |-> revoked_before,
                    usable_before |-> usable_before, after_create |-> after_create]
    /\ val' = [val EXCEPT ![s] = IdleVal]

\* the call of session s was made just after the create_api_key of its key and
\* returns at the time it was made
StillAfterCreate(s) == IF val[s].at = anow THEN val[s].after_create ELSE None

\* the instance validate_api_key returns: db.commit() has expired its
\* attributes (the sessionmaker of database.py line 48 keeps expire_on_commit)
\* and db.close() has detached it, so that it names its row and holds no value
DetachedModel(id) == [id |-> id, loaded |-> {}]

\* validate_api_key, lines 131-142: hash the key and query the table
validate_query(s) ==
    /\ val[s].pc = "idle"
    /\ IF s = 1 THEN TRUE ELSE val[s - 1].pc # "idle"
    /\ \E api_key \in Credentials :
         \/ /\ Matching(api_key) = {}
            /\ ValidateReturns(s, api_key, None, "none",
                               WasRevoked(api_key), IsUsable(api_key),
                               AfterCreate(api_key))
         \/ \E i \in Matching(api_key) :
              /\ val' = [val EXCEPT ![s] = [pc |-> "queried", api_key |-> api_key,
                                            id |-> i, model |-> api_keys[i],
                                            revoked_before |-> WasRevoked(api_key),
                                            usable_before |-> IsUsable(api_key),
                                            after_create |-> AfterCreate(api_key),
                                            at |-> anow]]
              /\ authLast' = authLast
         \/ ValidateReturns(s, api_key, None, "query",
                              WasRevoked(api_key), IsUsable(api_key),
                              AfterCreate(api_key))
    /\ UNCHANGED <<anow, api_keys, tokens, revoked, apiVars, repoVars, rlVars, whVars, auxVars>>

\* a commit that writes every attribute of the loaded model back
CommitStaleModel(id, model, now) ==
    [api_keys EXCEPT ![id] = [model EXCEPT !.last_used = Some(now)]]

\* the table after the commit of validate_api_key: the session writes the one
\* attribute it changed
CommitLastUsed(id, model, now) ==
    [api_keys EXCEPT ![id].last_used = Some(now)]

\* validate_api_key, lines 144-153: the expiry test, last_used, the commit
validate_finish(s) ==
    /\ val[s].pc = "queried"
    /\ IF Expired(val[s].model, anow)
       THEN /\ ValidateReturns(s, val[s].api_key, None, "none",
                               val[s].revoked_before, val[s].usable_before,
                               StillAfterCreate(s))
            /\ api_keys' = api_keys
       ELSE /\ api_keys' = CommitLastUsed(val[s].id, val[s].model, anow)
            /\ ValidateReturns(s, val[s].api_key, Some(DetachedModel(val[s].id)),
                               "none", val[s].revoked_before, val[s].usable_before,
                               StillAfterCreate(s))
    /\ UNCHANGED <<anow, tokens, revoked, apiVars, repoVars, rlVars, whVars, auxVars>>

\* validate_api_key, lines 158-160: an exception of the expiry test or of the
\* commit is logged and None is returned
validate_fail(s) ==
    /\ val[s].pc = "queried"
    /\ \E at \in {"expiry", "commit"} :
         /\ at = "expiry" => val[s].model.expires_at # None
         /\ ValidateReturns(s, val[s].api_key, None, at,
                            val[s].revoked_before, val[s].usable_before,
                            StillAfterCreate(s))
    /\ UNCHANGED <<anow, api_keys, tokens, revoked, apiVars, repoVars, rlVars, whVars, auxVars>>

\* a scope check in which a key without scopes is allowed nothing
check_permission_strict(api_key_model, required_permission) ==
    IF "*" \in api_key_model.permissions THEN TRUE
    ELSE required_permission \in api_key_model.permissions

\* check_permission, lines 173-182
check_permission(api_key_model, required_permission) ==
    IF api_key_model.permissions = {} THEN TRUE
    ELSE IF "*" \in api_key_model.permissions THEN TRUE
    ELSE required_permission \in api_key_model.permissions

\* permissions a caller asks check_permission for
Scopes == {"notion:read", "notion:write"}

\* a check_permission call on the model of a stored key
check_permission_call ==
    /\ \E i \in DOMAIN api_keys, required_permission \in Scopes :
         authLast' = Returned("check_permission",
                              [permissions |-> api_keys[i].permissions,
                               required_permission |-> required_permission],
                              Some(check_permission(api_keys[i], required_permission)),
                              "none")
    /\ UNCHANGED <<anow, api_keys, tokens, val, revoked, apiVars, repoVars, rlVars, whVars, auxVars>>

\* revoke_api_key: find the row by key_id, clear is_active, commit
revoke_api_key ==
    /\ \E key_id \in KeyIds :
         LET found == {i \in DOMAIN api_keys : api_keys[i].key_id = key_id}
         IN  \/ /\ found = {}
                /\ authLast' = Returned("revoke_api_key", key_id, Some(FALSE), "none")
                /\ UNCHANGED <<api_keys, revoked>>
             \/ \E i \in found :
                  /\ api_keys' = [api_keys EXCEPT ![i].is_active = FALSE]
                  /\ revoked' = revoked \cup {key_id}
                  /\ authLast' = Returned("revoke_api_key", key_id, Some(TRUE), "none")
             \/ /\ authLast' = Returned("revoke_api_key", key_id, Some(FALSE), "commit")
                /\ UNCHANGED <<api_keys, revoked>>
    /\ UNCHANGED <<anow, tokens, val, apiVars, repoVars, rlVars, whVars, auxVars>>

\* a dictionary that carries the stored digest along
KeyInfoWithHash(row) ==
    [key_id |-> row.key_id, key_hash |-> row.key_hash,
     permissions |-> row.permissions, rate_limit |-> row.rate_limit,
     last_used |-> row.last_used, expires_at |-> row.expires_at]

\* the dictionary list_api_keys builds of a row (lines 235-246)
KeyInfo(row) ==
    [key_id |-> row.key_id, permissions |-> row.permissions,
     rate_limit |-> row.rate_limit, last_used |-> row.last_used,
     expires_at |-> row.expires_at]

\* list_api_keys: the active rows; an exception gives the empty list
list_api_keys ==
    /\ \/ authLast' = Returned("list_api_keys", <<"zz", 0>>,
                               Some({KeyInfo(api_keys[i]) :
                                       i \in {j \in DOMAIN api_keys : api_keys[j].is_active}}),
                               "none")
       \/ authLast' = Returned("list_api_keys", <<"zz", 0>>, Some({}), "query")
    /\ UNCHANGED <<anow, api_keys, tokens, val, revoked, apiVars, repoVars, rlVars, whVars, auxVars>>

\* routes that depend on get_current_user
Endpoints == {"GET /notion/databases", "POST /notion/pages"}

\* get_current_user, routes.py lines 46-51
get_current_user(credentials) == credentials = api_secret_key

\* a route with current_user = Depends(get_current_user): 401, or its handler
api_route ==
    /\ \E endpoint \in Endpoints, credentials \in Credentials :
         /\ apiRuns[credentials] < MaxApiCalls
         /\ IF get_current_user(credentials)
            THEN /\ apiLast' = [endpoint |-> endpoint, credentials |-> credentials,
                                status |-> 200, ran |-> TRUE,
                                before |-> apiRuns[credentials],
                                table |-> api_keys,
                                authorization |-> Some(credentials)]
                 /\ apiRuns' = [apiRuns EXCEPT ![credentials] = @ + 1]
            ELSE /\ apiLast' = [endpoint |-> endpoint, credentials |-> credentials,
                                status |-> 401, ran |-> FALSE,
                                before |-> apiRuns[credentials],
                                table |-> api_keys,
                                authorization |-> Some(credentials)]
                 /\ apiRuns' = apiRuns
    /\ UNCHANGED <<anow, api_keys, tokens, val, authLast, revoked, repoVars, rlVars, whVars, auxVars>>

\* security = HTTPBearer(): a request without a bearer Authorization header
\* is refused by the framework before get_current_user runs, with 403 or with
\* 401 depending on the FastAPI release installed
NotAuthenticated == {401, 403}

\* POST /api/v1/chat, routes.py lines 67-104: the handler runs the agent and
\* answers 200 whether or not the agent raised
chat_with_agent ==
    /\ \E authorization \in {None} \cup {Some(c) : c \in Credentials} :
         IF authorization = None
         THEN /\ \E status \in NotAuthenticated :
                   apiLast' = [NoApiCall EXCEPT !.endpoint = "POST /chat",
                                                !.status = status,
                                                !.table = api_keys]
              /\ apiRuns' = apiRuns
         ELSE LET credentials == authorization[1]
              IN  /\ apiRuns[credentials] < MaxApiCalls
                  /\ apiLast' = [endpoint |-> "POST /chat",
                                  credentials |-> credentials,
                                  status |-> IF get_current_user(credentials)
                                             THEN 200 ELSE 401,
                                  ran |-> get_current_user(credentials),
                                  before |-> apiRuns[credentials],
                                  table |-> api_keys,
                                  authorization |-> authorization]
                  /\ apiRuns' = IF get_current_user(credentials)
                                 THEN [apiRuns EXCEPT ![credentials] = @ + 1]
                                 ELSE apiRuns
    /\ UNCHANGED <<anow, api_keys, tokens, val, authLast, revoked, repoVars, rlVars, whVars, auxVars>>

(***************************************************************************)
(* APIKeyRepository of src/models/repositories.py over the same table.      *)
(***************************************************************************)

\* the place of a row that has been deleted: no query finds it
Deleted == [NoModel EXCEPT !.is_active = FALSE]

\* update_usage, line 330: api_key = self.get_by_key_id(key_id)
usage_load(u) ==
    /\ use[u].pc = "idle"
    /\ IF u = 1 THEN TRUE ELSE use[u - 1].pc # "idle"
    /\ \E key_id \in KeyIds :
         LET found == {i \in DOMAIN api_keys : api_keys[i].key_id = key_id}
         IN  \/ /\ found = {}
                /\ use' = [use EXCEPT ![u] = [IdleUse EXCEPT !.pc = "done",
                                                             !.key_id = key_id,
                                                             !.outcome = "return"]]
             \/ \E i \in found :
                  use' = [use EXCEPT ![u] = [pc |-> "loaded", key_id |-> key_id,
                                             id |-> i, api_key |-> api_keys[i],
                                             outcome |-> "none"]]
    /\ UNCHANGED <<anow, api_keys, tokens, val, authLast, revoked, apiVars, rlVars, whVars, auxVars>>

\* update_usage, line 333: last_hour_reset < utcnow() - timedelta(hours=1)
HourRolledOver(api_key, now) ==
    api_key.last_hour_reset * HoursPerDay < now * HoursPerDay - 1

\* update_usage, lines 333-339: the values the call sets on the object it loaded
Used(api_key, now) ==
    LET reset == HourRolledOver(api_key, now)
    IN  [api_key EXCEPT
           !.current_hour_requests = (IF reset THEN 0 ELSE @) + 1,
           !.last_hour_reset = IF reset THEN now ELSE @,
           !.total_requests = @ + 1,
           !.last_used_at = Some(now)]

\* the UPDATE of the commit: the columns the call has set, as it computed them
WriteUsage(row, used) ==
    [row EXCEPT !.current_hour_requests = used.current_hour_requests,
                !.last_hour_reset = used.last_hour_reset,
                !.total_requests = used.total_requests,
                !.last_used_at = used.last_used_at]

\* update_usage, lines 332-341: count the use on the loaded object and commit
usage_commit(u) ==
    /\ use[u].pc = "loaded"
    /\ api_keys[use[u].id] # Deleted
    /\ api_keys' = [api_keys EXCEPT
                      ![use[u].id] = WriteUsage(@, Used(use[u].api_key, anow))]
    /\ use' = [use EXCEPT ![u].pc = "done", ![u].outcome = "return"]
    /\ UNCHANGED <<anow, tokens, val, authLast, revoked, apiVars, rlVars, whVars, auxVars>>

\* update_usage has no handler: an exception of the comparison of line 333 or
\* of the commit (the store, or a row deleted meanwhile) reaches the caller
usage_fail(u) ==
    /\ use[u].pc = "loaded"
    /\ use' = [use EXCEPT ![u].pc = "done", ![u].outcome = "raise"]
    /\ UNCHANGED <<anow, api_keys, tokens, val, authLast, revoked, apiVars, rlVars, whVars, auxVars>>

\* BaseRepository.delete, which APIKeyRepository inherits: the row is removed
delete ==
    /\ \E id \in DOMAIN api_keys :
         /\ api_keys[id] # Deleted
         /\ api_keys' = [api_keys EXCEPT ![id] = Deleted]
    /\ UNCHANGED <<anow, tokens, val, authLast, revoked, apiVars, repoVars, rlVars, whVars, auxVars>>

(***************************************************************************)
(* Initial state and specifications.                                        *)
(***************************************************************************)

\* the webhook side at rest: the settings with their defaults
WhRest ==
    /\ wnow = 0
    /\ settings = [notion_webhook_secret |-> None, slack_signing_secret |-> "ss"]
    /\ whLast = NoRequest
    /\ tasks = {}

\* the rate limiter at rest
RlRest ==
    /\ clock = 0
    /\ default_limits = [t \in LimitTypes |-> NoLimit]
    /\ store = [k \in RedisKeys |-> {}]
    /\ expireAt = [k \in RedisKeys |-> None]
    /\ req = [r \in Procs |-> IdleReq]
    /\ stat = IdleStat
    /\ resets = NoReset

\* the adaptive limiter after construction
AdRest ==
    /\ adnow = 0
    /\ load_history = <<>>
    /\ adLast = NoAdaptive

\* no wrapped call has been made
RetryRest == retry = NoRetry

\* one decorated function, no call of it made
LimRest ==
    /\ lnow = 0
    /\ calls_per_minute = 1
    /\ wrapper = "async"
    /\ calls = <<>>
    /\ lim = [t \in Threads |-> IdleCall]
    /\ finished = <<>>

\* no request has reached the middleware
MwRest == mw = [r \in Procs |-> IdleMw]

AuxRest == AdRest /\ RetryRest /\ LimRest /\ MwRest

Init == RlInit /\ WhRest /\ AuthRest /\ AuxRest

WebhookInit == RlRest /\ WhInit /\ AuthRest /\ AuxRest

AuthInit == RlRest /\ WhRest /\ AuthRest /\ AuxRest

\* every component as it is after construction
AtRest == RlRest /\ WhRest /\ AuthRest /\ AuxRest

AdaptiveNext ==
    \/ AdTick
    \/ update_system_load
    \/ get_adaptive_limit_call

\* AdaptiveRateLimiter: load samples and the limits computed from them
SpecAdaptive == AtRest /\ [][AdaptiveNext]_vars

LimitNext ==
    \/ LimTick
    \/ decorator
    \/ \E t \in Threads : async_wrapper(t)
    \/ \E t \in Threads : SyncFilter(t)
    \/ \E t \in Threads : SyncCheck(t)
    \/ \E t \in Threads : SyncRecord(t)

\* functions decorated with helpers.rate_limit and the calls made of them
SpecLimit == AtRest /\ [][LimitNext]_vars

RetryNext ==
    \/ RetryCall
    \/ RetrySucceeds
    \/ RetryFails
    \/ RetryReturn

\* calls of a function wrapped by retry_with_backoff
SpecRetry == AtRest /\ [][RetryNext]_vars

CheckNext ==
    \/ Tick
    \/ \E r \in Procs : CheckBegin(r)
    \/ \E r \in Procs : PipeExecute(r)
    \/ \E r \in Procs : PipeFail(r)
    \/ \E r \in Procs : Zrem(r)
    \/ \E r \in Procs : ZremFail(r)
    \/ \E r \in Procs : Zrange(r)
    \/ \E r \in Procs : ZrangeFail(r)

Next == CheckNext

\* concurrent check_rate_limit calls on one limiter
Spec == Init /\ [][Next]_vars

FewProcs == 1..NFew

FewNext ==
    \/ Tick
    \/ \E r \in FewProcs : CheckBegin(r)
    \/ \E r \in FewProcs : PipeExecute(r)
    \/ \E r \in FewProcs : PipeFail(r)
    \/ \E r \in FewProcs : Zrem(r)
    \/ \E r \in FewProcs : ZremFail(r)
    \/ \E r \in FewProcs : Zrange(r)
    \/ \E r \in FewProcs : ZrangeFail(r)

\* NFew concurrent check_rate_limit calls
SpecFew == Init /\ [][FewNext]_vars

\* a limiter whose table names the three types the middleware uses, each
\* with quota 1
MwTables ==
    {[t \in {"api", "user", "ip"} |-> [requests |-> 1, window_seconds |-> w]] :
        w \in 1..MaxWindow}

MwInit ==
    /\ clock = 0
    /\ default_limits \in MwTables
    /\ store = [k \in RedisKeys |-> {}]
    /\ expireAt = [k \in RedisKeys |-> None]
    /\ req = [r \in Procs |-> IdleReq]
    /\ stat = IdleStat
    /\ resets = NoReset
    /\ WhRest /\ AuthRest /\ AuxRest

MwNext ==
    \/ Tick
    \/ \E r \in FewProcs : MwReceive(r)
    \/ \E r \in FewProcs : MwCheck(r)
    \/ \E r \in FewProcs : PipeExecute(r)
    \/ \E r \in FewProcs : PipeFail(r)
    \/ \E r \in FewProcs : Zrem(r)
    \/ \E r \in FewProcs : ZremFail(r)
    \/ \E r \in FewProcs : Zrange(r)
    \/ \E r \in FewProcs : ZrangeFail(r)
    \/ \E r \in FewProcs : MwRespond(r)

\* requests that pass through RateLimitMiddleware
SpecMiddleware == MwInit /\ [][MwNext]_vars

\* check_rate_limit calls interleaved with a get_rate_limit_status call

StatusNext ==
    \/ Tick
    \/ \E r \in FewProcs : CheckBegin(r)
    \/ \E r \in FewProcs : PipeExecute(r)
    \/ \E r \in FewProcs : PipeFail(r)
    \/ \E r \in FewProcs : Zrem(r)
    \/ \E r \in FewProcs : ZremFail(r)
    \/ \E r \in FewProcs : Zrange(r)
    \/ \E r \in FewProcs : ZrangeFail(r)
    \/ StatusBegin
    \/ StatusEvict
    \/ StatusCount
    \/ StatusOldest
    \/ StatusFail

SpecStatus == Init /\ [][StatusNext]_vars

ResetNext ==
    \/ FewNext
    \/ reset_rate_limit

\* check_rate_limit calls interleaved with reset_rate_limit calls
SpecReset == Init /\ [][ResetNext]_vars

\* a named type, another named type, and a type default_limits does not name
SelectPairs == {Pair("api", "a"), Pair("user", "a"), Pair("api:a", "a")}

SelectNext ==
    \/ Tick
    \/ \E r \in FewProcs : CheckBeginAt(r, SelectPairs, CustomLimits)
    \/ \E r \in FewProcs : PipeExecute(r)
    \/ \E r \in FewProcs : PipeFail(r)
    \/ \E r \in FewProcs : Zrem(r)
    \/ \E r \in FewProcs : ZremFail(r)
    \/ \E r \in FewProcs : Zrange(r)
    \/ \E r \in FewProcs : ZrangeFail(r)

\* check_rate_limit calls with and without a custom limit, for named and
\* unnamed limit types
SpecSelect == Init /\ [][SelectNext]_vars

PairsNext ==
    \/ \E r \in FewProcs : CheckBeginAt(r, Pairs, {None})
    \/ \E r \in FewProcs : PipeExecute(r)
    \/ \E r \in FewProcs : Zrem(r)
    \/ \E r \in FewProcs : Zrange(r)
    \/ StatusBeginAt(Pairs)
    \/ StatusEvict
    \/ StatusCount
    \/ StatusOldest
    \/ reset_rate_limit_at(Pairs)

\* check, status and reset calls for several (limit type, identifier) pairs
SpecPairs == Init /\ [][PairsNext]_vars

WebhookNext ==
    \/ WhTick
    \/ handle_notion_webhook
    \/ handle_slack_events
    \/ handle_slack_commands
    \/ verify_slack_request_call

\* the webhook endpoints and the Slack request verifier
SpecWebhook == WebhookInit /\ [][WebhookNext]_vars

AuthNext ==
    \/ AuthTick
    \/ create_api_key
    \/ \E s \in Sessions : validate_query(s)
    \/ \E s \in Sessions : validate_finish(s)
    \/ \E s \in Sessions : validate_fail(s)
    \/ revoke_api_key
    \/ list_api_keys

\* the AuthService calls over one api_keys table
SpecAuth == AuthInit /\ [][AuthNext]_vars

\* keys with scopes and no expiry, as the routes' callers hold them
create_scoped_key == create_api_key_with(PermissionSets, {None})

ApiNext ==
    \/ create_scoped_key
    \/ revoke_api_key
    \/ api_route

\* the API routes beside the api_keys table
SpecApi == AuthInit /\ [][ApiNext]_vars

ScopeNext ==
    \/ create_scoped_key
    \/ revoke_api_key
    \/ check_permission_call

\* check_permission on the keys of the table
SpecScope == AuthInit /\ [][ScopeNext]_vars

ChatNext ==
    \/ create_scoped_key
    \/ revoke_api_key
    \/ chat_with_agent

\* the chat route beside the api_keys table
SpecChat == AuthInit /\ [][ChatNext]_vars

\* keys without scopes or expiry, as the repository finds them
create_plain_key == create_api_key_with({{}}, {None})

RepoNext ==
    \/ AuthTick
    \/ create_plain_key
    \/ revoke_api_key
    \/ \E u \in Uses : usage_load(u)
    \/ \E u \in Uses : usage_commit(u)
    \/ \E u \in Uses : usage_fail(u)
    \/ delete

\* the repository calls beside the AuthService calls that write the table
SpecRepo == AuthInit /\ [][RepoNext]_vars

(***************************************************************************)
(* Properties of the rate limiter.                                          *)
(***************************************************************************)

Done(r) == req[r].pc = "done"
KeyOf(r) == RedisKey(req[r].limit_type, req[r].key)
\* the calls made so far for redis key k
CallsOn(k) == {r \in Procs : req[r].pc # "idle" /\ KeyOf(r) = k}
\* every call made so far for k has returned normally and decided with limit l
AllReturned(k, l) ==
    \A r \in CallsOn(k) :
        Done(r) /\ req[r].failed = "none" /\ req[r].rate_limit = l
\* the members of k that are not stale under window w at the present time
Fresh(k, w) == {t \in Live(k) : t > clock - w}

\* C1: when quota + N calls (N > 0) for one identifier and limit type are in
\* flight together and read clock values of one window, exactly quota of
\* them return allowed = true.
C1_ExactlyQuotaAdmitted ==
    \A k \in RedisKeys, l \in RateLimits :
        ( /\ CallsOn(k) = Procs
          /\ AllReturned(k, l)
          /\ NReq > l.requests
          /\ \A r \in Procs : req[r].peers = r - 1
          /\ \A r, q \in Procs : req[r].now - req[q].now < l.window_seconds )
        => Cardinality({r \in Procs : req[r].allowed}) = l.requests

\* C2: for a fresh identifier and calls made one after the other, the first
\* quota calls of one window are allowed, the (quota+1)-th call of that
\* window is denied, and a call made more than window_seconds after the last
\* admitted one is allowed.
C2_SequentialQuota ==
    \A k \in RedisKeys, l \in RateLimits :
        ( /\ AllReturned(k, l)
          /\ \A r \in CallsOn(k) : req[r].alone )
        => \A r \in CallsOn(k) :
             LET idx == Cardinality({q \in CallsOn(k) : q < r}) + 1
                 first == Min(CallsOn(k))
                 inWindow == req[r].now - req[first].now < l.window_seconds
                 admitted == {q \in CallsOn(k) : q < r /\ req[q].allowed}
             IN  /\ (idx <= l.requests /\ inWindow) => req[r].allowed
                 /\ (idx = l.requests + 1 /\ inWindow) => ~req[r].allowed
                 /\ ( /\ admitted # {}
                      /\ \A q \in admitted :
                           req[r].now - req[q].now > l.window_seconds )
                    => req[r].allowed

\* C3: in every state, for an identifier whose calls all use one limit, the
\* number of recorded timestamps that are not stale is at most the quota.
C3_WindowAtMostQuota ==
    \A k \in RedisKeys, l \in RateLimits :
        ( /\ \A r \in CallsOn(k) : req[r].rate_limit = l
          /\ (stat.pc # "idle" /\ RedisKey(stat.limit_type, stat.key) = k)
                => StatusLimit = l )
        => Cardinality(Fresh(k, l.window_seconds)) <= l.requests

\* C4: a denied check that ran alone leaves the identifier with the
\* timestamps it had before the call minus the stale ones.
C4_DeniedCommitsNothing ==
    \A r \in Procs :
        ( /\ req[r].pc = "zrange" /\ ~req[r].allowed /\ req[r].alone
          /\ \A q \in CallsOn(KeyOf(r)) : req[q].failed = "none" )
        => Live(KeyOf(r)) =
             Zremrangebyscore(req[r].before,
                              req[r].now - req[r].rate_limit.window_seconds)

\* C5: a check during which a store command raised returns allowed = true
\* with the availability flag and raises nothing.
C5_FailsOpen ==
    \A r \in Procs :
        (Done(r) /\ req[r].failed # "none")
        => /\ req[r].outcome = "return"
           /\ req[r].allowed
           /\ req[r].metadata = Unavailable

\* the removal of a denied entry failed in one call and the read of the
\* oldest entry in another
C5_Witness ==
    \A at \in {"zrem", "zrange"} :
        \E r \in Procs : Done(r) /\ req[r].failed = at

(***************************************************************************)
(* Properties of the webhook endpoints.                                     *)
(***************************************************************************)

\* the request carries a numeric timestamp more than 300 seconds from now
Stale(request) ==
    /\ ParseInt(request.timestamp) # None
    /\ Abs(request.now - ParseInt(request.timestamp)[1]) > ReplayWindow

\* C6: every Slack verification that admits inbound traffic answers false,
\* without comparing signatures, when |now - timestamp| > 300.
C6_SlackReplayWindow ==
    (whLast.endpoint \in {"slack_events", "verify_slack_request"} /\ Stale(whLast))
    => ~whLast.verified /\ ~whLast.compared

\* C7: a webhook request whose verification failed is rejected and schedules
\* nothing; every scheduled handler belongs to a verified request.
C7_WebhookGate ==
    /\ \A t \in tasks : t.verified
    /\ ( /\ whLast.endpoint \in {"notion", "slack_events", "slack_commands"}
         /\ ~whLast.verified )
       => whLast.status # 200 /\ ~whLast.scheduled

(***************************************************************************)
(* Properties of the API keys and of the API routes.                        *)
(***************************************************************************)

\* the scope the operation behind a route needs
RequiredScope(endpoint) ==
    IF endpoint = "POST /notion/pages" THEN "notion:write" ELSE "notion:read"

\* the three gates of an API call, on the table the call found: the bearer is
\* the secret of an active, unexpired key, whose quota has room, and whose
\* scopes cover the operation
Admissible(call) ==
    \E i \in DOMAIN call.table :
        /\ call.table[i].key_hash = hash_api_key(call.credentials)
        /\ Usable(call.table[i], anow)
        /\ call.before < call.table[i].rate_limit
        /\ check_permission(call.table[i], RequiredScope(call.endpoint))

\* C8: an authenticated API call runs its handler exactly when it passes key
\* validation, then the rate limit of the validated key, then the scope check
\* of the operation: calls within the quota and the scopes succeed, the call
\* after the quota and the call that needs a scope the key lacks are rejected.
C8_ApiAdmissionOrder ==
    apiLast.endpoint # "none" => (apiLast.ran <=> Admissible(apiLast))

\* C9: a validate_api_key call made after revoke_api_key returned true for a
\* key returns None when given the secret of that key, whatever create,
\* validate, revoke and list calls came between; and no step sets is_active of
\* a row back to true.
C9_RevocationPermanent ==
    /\ []((authLast.op = "validate_api_key" /\ authLast.revoked_before)
            => authLast.result = None)
    /\ [][\A i \in DOMAIN api_keys :
            ~api_keys[i].is_active => ~api_keys'[i].is_active]_vars

\* a key that validated, was revoked, and whose secret then validated to None
C9_Witness ==
    /\ authLast.op = "validate_api_key"
    /\ authLast.failed = "none"
    /\ authLast.result = None
    /\ authLast.revoked_before
    /\ \E i \in RowsOf(authLast.arg) : api_keys[i].last_used # None

\* C10: validate_api_key returns a record only if, when it was called, a row
\* with the digest of the given secret was active and not expired, and the
\* record is that row; a call in which the store failed returns None.
C10_ValidateSoundFailClosed ==
    authLast.op = "validate_api_key" =>
        /\ authLast.result # None =>
             /\ authLast.usable_before
             /\ api_keys[authLast.result[1].id].key_hash = hash_api_key(authLast.arg)
        /\ authLast.failed # "none" => authLast.result = None

\* the store failed under the secret of a usable key that had validated
\* before, on the last day of its life, and the call returned None
C10_Witness ==
    /\ authLast.op = "validate_api_key"
    /\ authLast.failed = "commit"
    /\ authLast.result = None
    /\ authLast.usable_before
    /\ \E i \in RowsOf(authLast.arg) :
         /\ api_keys[i].last_used # None
         /\ api_keys[i].expires_at = api_keys[i].last_used

\* C11: a validate_api_key call made with the secret a create_api_key call has
\* just returned, in which the store did not fail, returns the record of the
\* created key_id, whatever scopes and expires_in_days the key was created with.
C11_CreateThenValidate ==
    ( /\ authLast.op = "validate_api_key"
      /\ authLast.after_create # None
      /\ authLast.failed \notin {"query", "commit"} )
    => /\ authLast.result # None
       /\ api_keys[authLast.result[1].id].key_id = authLast.after_create[1]

\* the key ids generate_api_key hands out
CreatedKeyIds == {api_keys[i].key_id : i \in DOMAIN api_keys}

\* C12: validate_api_key given the key_id of a created key in place of its
\* secret returns None, in every state of the api_keys table.
C12_KeyIdIsNoCredential ==
    (authLast.op = "validate_api_key" /\ authLast.arg \in CreatedKeyIds)
        => authLast.result = None

\* the key_id of a key that is active and has validated with its secret was
\* presented, the store did not fail, and None came back
C12_Witness ==
    /\ authLast.op = "validate_api_key"
    /\ authLast.failed = "none"
    /\ authLast.result = None
    /\ \E i \in DOMAIN api_keys :
         /\ api_keys[i].key_id = authLast.arg
         /\ api_keys[i].is_active
         /\ api_keys[i].last_used # None

\* the secrets generate_api_key hands out, and their digests
Secrets == {generate_api_key(n).api_key : n \in 1..MaxKeys}
Digests == {hash_api_key(api_key) : api_key \in Secrets}

\* the identifiers, secrets and digests a record or dictionary holds
TokensIn(record) ==
    {record[f] : f \in DOMAIN record \cap {"key_id", "api_key", "key_hash"}}

C14_UsageAccounting ==
    (authLast.op = "validate_api_key" /\ authLast.result # None)
        => LET row == api_keys[authLast.result[1].id]
           IN  /\ row.last_used # None
               /\ row.total_requests > 0
               /\ row.current_hour_requests > 0

\* the update_usage calls that returned after counting a use of row i
UsesOf(i) == {u \in Uses : use[u].pc = "done" /\ use[u].outcome = "return"
                                              /\ use[u].id = i}

\* C15: once the concurrent update_usage calls on a key have all completed,
\* the lifetime total of the key is the number of uses they counted (the total
\* before them being zero): no increment is lost.
C15_NoLostUpdates ==
    (\A u \in Uses : use[u].pc \in {"idle", "done"})
        => \A i \in DOMAIN api_keys :
             api_keys[i] # Deleted
                => api_keys[i].total_requests = Cardinality(UsesOf(i))

\* C16: every row that was ever inserted in the api_keys table is still in
\* it, after any sequence of create, revoke, update_usage and repository
\* calls: a key is deactivated, never removed.
C16_NeverDeleted ==
    \A i \in DOMAIN api_keys : api_keys[i] # Deleted

\* the rows with a key id
RowsWithId(key_id) == {i \in DOMAIN api_keys : api_keys[i].key_id = key_id}

\* C17: revoke_api_key on a key that exists returns true and leaves it
\* inactive, whether or not it was inactive before; revoking a key that is
\* inactive already changes nothing in the table; and revoke_api_key returns
\* false only for a key_id no record was ever created with.
C17_RevokeIdempotent ==
    /\ [](authLast.op = "revoke_api_key" =>
            IF authLast.arg \in CreatedKeyIds
            THEN /\ authLast.result = Some(TRUE)
                 /\ \A i \in RowsWithId(authLast.arg) : ~api_keys[i].is_active
            ELSE authLast.result = Some(FALSE))
    /\ [][\A i \in DOMAIN api_keys :
            ( /\ ~api_keys[i].is_active
              /\ authLast'.op = "revoke_api_key"
              /\ authLast'.arg = api_keys[i].key_id )
            => api_keys' = api_keys]_vars

\* C18: check_permission returns true exactly when the permissions of the key
\* are empty, or hold the wildcard, or hold the required permission; a key
\* with the one scope notion:read is allowed notion:read and refused
\* notion:write.
C18_ScopeCheck ==
    authLast.op = "check_permission" =>
        LET permissions == authLast.arg.permissions
            required == authLast.arg.required_permission
        IN  /\ authLast.result[1] <=> ( \/ permissions = {}
                                        \/ "*" \in permissions
                                        \/ required \in permissions )
            /\ permissions = {"notion:read"}
                 => (authLast.result[1] <=> required = "notion:read")

\* every case has been asked: no scopes, the wildcard, the scope itself, and
\* notion:write of a key that holds notion:read alone, which is refused
C18_Witness ==
    /\ authLast.op = "check_permission"
    /\ authLast.arg.permissions = {"notion:read"}
    /\ authLast.arg.required_permission = "notion:write"
    /\ authLast.result = Some(FALSE)
    /\ \E i \in DOMAIN api_keys : api_keys[i].permissions = {}

\* C19: a check_rate_limit call that returns allowed = false carries a reset
\* time, and that reset time is strictly later than the time of the call,
\* for every quota and window and whatever reset_rate_limit calls run beside
\* it.
C19_ResetTimeOnDenial ==
    \A r \in Procs :
        (Done(r) /\ req[r].failed = "none" /\ ~req[r].allowed) =>
            /\ req[r].metadata.reset_time # None
            /\ req[r].metadata.reset_time[1] > req[r].now

\* the request answered last is a Slack request whose timestamp header is a
\* number inside the replay window
SlackInsideWindow ==
    /\ whLast.endpoint \in {"slack_events", "verify_slack_request"}
    /\ ParseInt(whLast.timestamp) # None
    /\ Abs(whLast.now - ParseInt(whLast.timestamp)[1]) <= ReplayWindow

\* C20: for every body and secret, the signature computed from that body and
\* secret is verified, and a signature that differs from it (the signature of
\* another body, or another signature for the same body) is not: in Notion
\* mode, and in Slack mode with a timestamp inside the window.
C20_SignatureRoundTrip ==
    /\ (whLast.endpoint = "notion" /\ settings.notion_webhook_secret # None) =>
          (whLast.verified <=>
             whLast.signature =
               NotionSig(whLast.body, settings.notion_webhook_secret[1]))
    /\ SlackInsideWindow =>
          (whLast.verified <=>
             whLast.signature =
               SlackSig(whLast.body, whLast.timestamp,
                        settings.slack_signing_secret))

\* computing the signature of the request answered last raises inside the
\* verifier: the secret is missing, the timestamp is no number, or the body
\* does not decode
VerifierRaises ==
    \/ whLast.endpoint = "notion" /\ settings.notion_webhook_secret = None
    \/ whLast.endpoint = "slack_events" /\ ~whLast.body.utf8
    \/ /\ whLast.endpoint = "verify_slack_request"
       /\ \/ ParseInt(whLast.timestamp) = None
          \/ ~Stale(whLast) /\ ~whLast.body.utf8

\* C21: when computing or comparing the signature raises, the verifier
\* returns false and raises nothing, and the endpoint rejects the request
\* with status 401, not 500, and schedules nothing.
C21_VerifierFailsClosed ==
    VerifierRaises =>
        /\ ~whLast.verified
        /\ ~whLast.raised
        /\ ~whLast.scheduled
        /\ whLast.status = 401

\* a Notion request arrived while no secret is configured and was answered
C21_Witness ==
    /\ whLast.endpoint = "notion"
    /\ settings.notion_webhook_secret = None
    /\ whLast.signature = NotionSig(whLast.body, "ns")
    /\ whLast.status = 401

\* C22: a request to POST /api/v1/chat that carries no bearer credential or a
\* wrong one is answered with status 401 and its handler is not invoked.
C22_UnauthenticatedTerminal ==
    ( /\ apiLast.endpoint = "POST /chat"
      /\ \/ apiLast.authorization = None
         \/ apiLast.authorization # Some(api_secret_key) )
    => apiLast.status = 401 /\ ~apiLast.ran

\* the keys of the pairs other than `pair` keep their members and their TTL
OthersUnchanged(pair) ==
    \A q \in Pairs \ {pair} :
        LET k == RedisKey(q.limit_type, q.key)
        IN  store'[k] = store[k] /\ expireAt'[k] = expireAt[k]

\* C23: a step of a check_rate_limit, get_rate_limit_status or
\* reset_rate_limit call for one (limit type, identifier) pair leaves the
\* recorded timestamps of every other pair as they were, so that no later
\* check for another pair sees a difference.
C23_PairsIndependent ==
    [][ /\ \A r \in Procs :
             req'[r].pc # req[r].pc
                 => OthersUnchanged(Pair(req'[r].limit_type, req'[r].key))
        /\ stat' # stat => OthersUnchanged(Pair(stat'.limit_type, stat'.key))
        /\ resets' # resets => OthersUnchanged(resets'.pair) ]_vars

\* what check_rate_limit returns when it runs alone at time `now` on a key
\* that holds `members` (lines 61-102)
CheckAlone(members, now, rate_limit) ==
    LET res == Pipeline(members, now, now - rate_limit.window_seconds)
        current_count == res.zcard + 1
        allowed == current_count <= rate_limit.requests
        left == IF allowed THEN res.members ELSE res.members \ {now}
    IN  [allowed |-> allowed,
         metadata |-> Metadata(rate_limit, current_count, left)]

\* C24: get_rate_limit_status never records a timestamp, and a
\* check_rate_limit call for the same identifier returns the same result
\* whether or not status calls ran before it at the same clock value.
C24_StatusConsumesNothing ==
    [][(stat.pc # "idle" /\ stat' # stat /\ stat.now = clock) =>
         LET k == RedisKey(stat.limit_type, stat.key)
         IN  /\ store'[k] \subseteq store[k]
             /\ \A custom_limit \in CustomLimits :
                  LET rate_limit == SelectLimit(custom_limit, stat.limit_type)
                  IN  CheckAlone(Live(k)', clock, rate_limit)
                        = CheckAlone(Live(k), clock, rate_limit)]_vars

\* the limit the call must decide with: its custom limit, else the default of
\* its limit type, else the default of "api"
ExpectedLimit(r) ==
    IF req[r].custom_limit # None THEN req[r].custom_limit[1]
    ELSE IF req[r].limit_type = "api" THEN default_limits["api"]
    ELSE IF req[r].limit_type = "user" THEN default_limits["user"]
    ELSE default_limits["api"]

\* C25: a check_rate_limit call that returns its decision decided with the
\* custom limit when one was passed, otherwise with the default of the named
\* limit type, otherwise with the default of "api"; the field limit of its
\* metadata is the quota of that limit.
C25_QuotaSelection ==
    \A r \in Procs :
        (Done(r) /\ req[r].failed = "none") =>
            /\ req[r].metadata.limit = ExpectedLimit(r).requests
            /\ req[r].metadata.window_seconds = ExpectedLimit(r).window_seconds
            /\ req[r].allowed <=>
                 req[r].metadata.current_count <= ExpectedLimit(r).requests

\* a call with a custom limit whose quota differs from the default of its
\* type has returned beside a call for a limit type that has no default
C25_Witness ==
    \E r, q \in Procs :
        /\ Done(r) /\ req[r].failed = "none"
        /\ req[r].custom_limit # None
        /\ req[r].limit_type = "api"
        /\ req[r].custom_limit[1].requests # default_limits["api"].requests
        /\ req[r].metadata.limit = req[r].custom_limit[1].requests
        /\ Done(q) /\ req[q].failed = "none"
        /\ req[q].custom_limit = None
        /\ req[q].limit_type = "api:a"
        /\ req[q].metadata.limit = default_limits["api"].requests

\* the samples of the history the last call saw that are younger than ten
\* minutes at the time of the call
RecentOf(call) ==
    {i \in 1..Len(call.history) : call.history[i].timestamp > call.now - TenMinutes}

\* twice the sum of the load scores of those samples
LoadSum2(call) ==
    Sum([i \in 1..Len(call.history) |->
            IF i \in RecentOf(call) THEN call.history[i].load_score2 ELSE 0])

\* C26: get_adaptive_limit returns the base limit unchanged when no load
\* sample is younger than ten minutes; otherwise it keeps the window, returns
\* a quota of at least 1, half the base quota (cut to a whole number) when
\* the average load is above 80, and 1.5 times the base quota (cut to a whole
\* number) when it is below 30.
C26_AdaptiveQuota ==
    adLast.called =>
        LET n == Cardinality(RecentOf(adLast))
            base == adLast.base_limit
            result == adLast.result
        IN  IF n = 0 THEN result = base
            ELSE /\ result.window_seconds = base.window_seconds
                 /\ result.requests >= 1
                 /\ LoadSum2(adLast) > 2 * 80 * n =>
                      result.requests = Max(1, base.requests \div 2)
                 /\ LoadSum2(adLast) < 2 * 30 * n =>
                      result.requests = (3 * base.requests) \div 2

\* under a load above 80 a base quota of one request stayed one request
C26_Witness ==
    /\ adLast.called
    /\ RecentOf(adLast) # {}
    /\ LoadSum2(adLast) > 2 * 80 * Cardinality(RecentOf(adLast))
    /\ adLast.base_limit.requests = 1
    /\ adLast.result.requests = 1
    /\ \E i \in 1..Len(adLast.history) : i \notin RecentOf(adLast)

\* the calls for k that were admitted and whose clock reading lies in the
\* window w that ends at time t
AdmittedIn(k, w, t) ==
    {r \in CallsOn(k) : req[r].allowed /\ req[r].now > t - w /\ req[r].now <= t}

\* C27: after check_rate_limit calls made one after the other for one
\* identifier under one limit, calls that read the same clock value included,
\* the window holds as many timestamps as requests were admitted within it,
\* and current_count of an admitted call is the number of requests admitted
\* within its window, itself included.
C27_AdmittedRecordedOnce ==
    \A k \in RedisKeys, l \in RateLimits :
        ( /\ AllReturned(k, l)
          /\ \A r \in CallsOn(k) : req[r].alone )
        => /\ Cardinality(Fresh(k, l.window_seconds))
                = Cardinality(AdmittedIn(k, l.window_seconds, clock))
           /\ \A r \in CallsOn(k) :
                req[r].allowed =>
                    req[r].metadata.current_count
                        = Cardinality({q \in AdmittedIn(k, l.window_seconds, req[r].now) :
                                          q <= r})

\* the invocations of the present call that raised
Failures == {i \in 1..Len(retry.invoked) : retry.invoked[i] = "raised"}

\* C28: a call of a function wrapped by retry_with_backoff invokes it at most
\* max_retries + 1 times; an invocation that returns is the last one and the
\* wrapper returns its result; when all max_retries + 1 invocations raise the
\* wrapper raises the exception of the last; the wrapper sleeps
\* min(base_delay * 2^k, max_delay) after the k-th failed attempt (k from 0)
\* and not after the final one.
C28_RetryBounded ==
    /\ Len(retry.invoked) <= retry.max_retries + 1
    /\ \A i \in 1..Len(retry.invoked) :
         retry.invoked[i] = "returned" =>
            /\ i = Len(retry.invoked)
            /\ retry.outcome = Some([kind |-> "return", value |-> ResultOf(i)])
    /\ Cardinality(Failures) = retry.max_retries + 1 =>
         retry.outcome = Some([kind |-> "raise",
                               value |-> ExceptionOf(retry.max_retries + 1)])
    /\ (retry.outcome # None /\ retry.outcome[1].kind = "raise") =>
         Cardinality(Failures) = retry.max_retries + 1
    /\ Len(retry.slept) =
         IF Cardinality(Failures) = retry.max_retries + 1
         THEN retry.max_retries ELSE Cardinality(Failures)
    /\ \A k \in 0..(Len(retry.slept) - 1) :
         LET d == retry.base_delay * (2 ^ k)
         IN  retry.slept[k + 1] = IF d < retry.max_delay THEN d ELSE retry.max_delay

\* a call with two retries failed three times, slept 2 and then the cap 3
\* that is less than 4, and raised the third exception
C28_Witness ==
    /\ retry.pc = "done"
    /\ retry.max_retries = 2
    /\ retry.base_delay = 2 /\ retry.max_delay = 3
    /\ retry.slept = <<2, 3>>
    /\ retry.outcome = Some([kind |-> "raise", value |-> ExceptionOf(3)])

\* the invocations of the wrapped function that started in the 60 seconds
\* up to and including t
StartedWithin(t) ==
    {i \in 1..Len(finished) :
        /\ finished[i].kind = "invoked"
        /\ t - Minute < finished[i].now
        /\ finished[i].now <= t}

\* C29: of a function wrapped by helpers.rate_limit(calls_per_minute), at
\* most calls_per_minute invocations started within any trailing 60 seconds;
\* a call over the limit raises RateLimitError with a retry_after that is not
\* negative, does not invoke the wrapped function and is not recorded.
C29_CallLimiter ==
    /\ \A t \in 0..(MaxMinutes * Minute) :
         Cardinality(StartedWithin(t)) <= calls_per_minute
    /\ \A i \in 1..Len(finished) :
         finished[i].over =>
            /\ finished[i].kind = "RateLimitError"
            /\ finished[i].retry_after # None
            /\ finished[i].retry_after[1] >= 0
            /\ ~finished[i].recorded

\* the key and the type the statement gives a request: the API key when the
\* request has one, else the user id, else the client IP
KeyedBy(request) ==
    IF request.api_key # None
    THEN [limit_type |-> "api", key |-> "api_key:" \o request.api_key[1]]
    ELSE IF request.user_id # None
    THEN [limit_type |-> "user", key |-> "user:" \o request.user_id[1]]
    ELSE [limit_type |-> "ip", key |-> "ip:" \o request.client_ip]

\* C30: RateLimitMiddleware checks a request under its API key when it has
\* one, else under its user id, else under its client IP; when the limiter
\* denies the request the middleware raises RateLimitError with a retry_after
\* that is not negative and is reset_time less the time of raising, and the
\* downstream handler is not called; when the limiter allows it, fail-open
\* included, the downstream handler is called exactly once and the limit and
\* remaining headers are set.
C30_MiddlewareAdmission ==
    \A r \in Procs :
        /\ (mw[r].pc # "idle" /\ req[r].pc # "idle") =>
              /\ req[r].limit_type = KeyedBy(mw[r].request).limit_type
              /\ req[r].key = KeyedBy(mw[r].request).key
        /\ (mw[r].pc = "done" /\ ~req[r].allowed) =>
              /\ mw[r].answer.kind = "RateLimitError"
              /\ mw[r].answer.retry_after # None
              /\ mw[r].answer.retry_after[1] >= 0
              /\ req[r].metadata.reset_time # None
              /\ mw[r].answer.retry_after[1] =
                    req[r].metadata.reset_time[1] - mw[r].answer.at
              /\ mw[r].answer.handled = 0
        /\ (mw[r].pc = "done" /\ req[r].allowed) =>
              /\ mw[r].answer.kind = "response"
              /\ mw[r].answer.handled = 1
              /\ mw[r].answer.limit # None
              /\ mw[r].answer.remaining # None

====
